---- MODULE Spec2Model ----
(***************************************************************************)
(* Keyword Research Platform (src/keyword_research.py).                    *)
(*                                                                         *)
(* The state is the keyword store built once by KeywordResearcher.__init__ *)
(* and, per request worker, the call in flight and its return value.  The  *)
(* operations are KeywordResearcher.search_keywords, .analyze_keyword,     *)
(* ._calculate_opportunity_score and the two Flask routes /search and      *)
(* /analyze.                                                               *)
(*                                                                         *)
(* Text is a TLA+ string; the character at position i of s is the one      *)
(* character string SubSeq(s, i, i).  Decimal numbers are scaled integers: *)
(* cpc is held in cents (3.0 is 300), opportunity_score and every other    *)
(* one-decimal value in tenths (26.7 is 267).                              *)
(*                                                                         *)
(* The random module is a deterministic generator whose only unknown is    *)
(* its internal state.  It is modelled as a small additive congruential    *)
(* generator; the state it is in when the store is built, and when a call  *)
(* starts, is the nondeterministic input (0..MaxSeed).  Every draw yields  *)
(* a level 0..MaxLevel, which randint/uniform/choice spread over their     *)
(* range so that both ends of every range are produced.                    *)
(***************************************************************************)
EXTENDS Integers, Sequences, FiniteSets, TLC

VARIABLES
    keyword_database,   \* researcher.keyword_database: the shared store
    pc,                 \* per worker: "idle", "search", "analyze", "score", "done"
    call,               \* per worker: the arguments of the call in flight
    ret                 \* per worker: the value the call returned

vars == <<keyword_database, pc, call, ret>>

(***************************************************************************)
(* Bounds of the model.                                                    *)
(***************************************************************************)
MaxSeed == 3        \* generator states tried: 0..MaxSeed
MaxLevel == 4       \* a draw is one of the levels 0..MaxLevel
MaxNegLimit == 2    \* limits tried: -MaxNegLimit..MaxSmallLimit, and those
MaxSmallLimit == 3  \* around the default limit and the size of the store
NumWorkers == 2     \* concurrent request workers

Workers == 1..NumWorkers
RandomSeeds == 0..MaxSeed

(***************************************************************************)
(* Program constants.                                                      *)
(***************************************************************************)
DefaultLimit == 50          \* search_keywords(self, seed_keyword, limit=50)
MaxRelated == 10            \* sorted(...)[:10]

Min(a, b) == IF a <= b THEN a ELSE b
Max(a, b) == IF a >= b THEN a ELSE b

(***************************************************************************)
(* str methods.                                                            *)
(***************************************************************************)
LowerLetters == "abcdefghijklmnopqrstuvwxyz"
UpperLetters == "ABCDEFGHIJKLMNOPQRSTUVWXYZ"
Whitespace == {" ", "\t", "\n"}

CharAt(s, i) == SubSeq(s, i, i)

UpperSet == {CharAt(UpperLetters, i) : i \in 1..Len(UpperLetters)}
LowerSet == {CharAt(LowerLetters, i) : i \in 1..Len(LowerLetters)}

IsUpper(c) == c \in UpperSet
IsLower(c) == c \in LowerSet
IsCased(c) == IsUpper(c) \/ IsLower(c)

LowerChar(c) ==
    IF IsUpper(c)
    THEN CharAt(LowerLetters, CHOOSE i \in 1..Len(UpperLetters) : CharAt(UpperLetters, i) = c)
    ELSE c

UpperChar(c) ==
    IF IsLower(c)
    THEN CharAt(UpperLetters, CHOOSE i \in 1..Len(LowerLetters) : CharAt(LowerLetters, i) = c)
    ELSE c

\* s.lower(), on the characters i..j of s (the range is halved rather than
\* walked, which keeps the evaluation shallow)
RECURSIVE lower_range(_, _, _)
lower_range(s, i, j) ==
    IF i > j THEN ""
    ELSE IF i = j THEN LowerChar(CharAt(s, i))
    ELSE lower_range(s, i, (i + j) \div 2) \o lower_range(s, ((i + j) \div 2) + 1, j)

lower(s) == lower_range(s, 1, Len(s))

\* s.title(): a cased character is uppercased when the character before it is
\* not cased (or there is none) and lowercased otherwise; the rest is kept.
title_char(s, i) ==
    LET c == CharAt(s, i)
    IN  IF ~IsCased(c) THEN c
        ELSE IF i > 1 /\ IsCased(CharAt(s, i - 1)) THEN LowerChar(c)
        ELSE UpperChar(c)

RECURSIVE title_range(_, _, _)
title_range(s, i, j) ==
    IF i > j THEN ""
    ELSE IF i = j THEN title_char(s, i)
    ELSE title_range(s, i, (i + j) \div 2) \o title_range(s, ((i + j) \div 2) + 1, j)

\* mutant: only the first character of each whitespace-separated word changes
RECURSIVE capitalize_words(_, _, _)
capitalize_words(s, i, j) ==
    IF i > j THEN ""
    ELSE IF i = j
    THEN (IF i = 1 \/ CharAt(s, i - 1) \in Whitespace
          THEN UpperChar(CharAt(s, i)) ELSE CharAt(s, i))
    ELSE capitalize_words(s, i, (i + j) \div 2) \o capitalize_words(s, ((i + j) \div 2) + 1, j)

title_of_words(s) == capitalize_words(s, 1, Len(s))

title(s) == title_range(s, 1, Len(s))

\* sub in s
contains(sub, s) ==
    \E i \in 0..(Len(s) - Len(sub)) : SubSeq(s, i + 1, i + Len(sub)) = sub

\* s.split(): the maximal runs of non-whitespace characters, in order
RECURSIVE split_from(_, _, _)
split_from(s, i, word) ==
    IF i > Len(s)
    THEN IF word = "" THEN <<>> ELSE <<word>>
    ELSE IF CharAt(s, i) \in Whitespace
    THEN IF word = "" THEN split_from(s, i + 1, "")
         ELSE <<word>> \o split_from(s, i + 1, "")
    ELSE split_from(s, i + 1, word \o CharAt(s, i))

split(s) == split_from(s, 1, "")

(***************************************************************************)
(* The random module.                                                      *)
(***************************************************************************)
\* the state of the generator n draws after it was in state seed (an additive
\* congruential generator, so that the n-th state has a closed form)
generator_state(seed, n) == (17 * seed + 37 * n) % 101

\* the n-th draw (n = 0, 1, ...) of a generator started in state seed
draw(seed, n) == generator_state(seed, n) % (MaxLevel + 1)

\* random.randint(lo, hi) on draw x; in cents, round(random.uniform(lo, hi), 2)
randint(lo, hi, x) == lo + ((x * (hi - lo)) \div MaxLevel)

\* random.choice(options) on draw x
choice(options, x) == options[1 + ((x * (Len(options) - 1)) \div MaxLevel)]

(***************************************************************************)
(* KeywordResearcher._generate_mock_keywords                               *)
(***************************************************************************)
base_keywords ==
    << "digital marketing", "seo optimization", "content marketing", "social media",
       "web development", "python programming", "data science", "machine learning",
       "artificial intelligence", "cloud computing", "cybersecurity", "blockchain",
       "e-commerce", "online business", "startup", "entrepreneurship" >>

variations(base) ==
    << base \o " tools",
       base \o " strategy",
       base \o " tips",
       "best " \o base,
       base \o " guide",
       base \o " course",
       base \o " services",
       base \o " agency",
       "how to " \o base,
       base \o " tutorial" >>

Competitions == <<"Low", "Medium", "High">>
Trends == <<"Rising", "Stable", "Declining">>

\* base.replace(' ', '_')
RECURSIVE replace_space(_, _, _)
replace_space(s, i, j) ==
    IF i > j THEN ""
    ELSE IF i = j THEN (IF CharAt(s, i) = " " THEN "_" ELSE CharAt(s, i))
    ELSE replace_space(s, i, (i + j) \div 2) \o replace_space(s, ((i + j) \div 2) + 1, j)

NumVariations == Len(variations(""))
StoreSize == Len(base_keywords) * NumVariations

generate_mock_keywords(seed) ==
    [n \in 1..StoreSize |->
        LET base == base_keywords[((n - 1) \div NumVariations) + 1]
            d == 5 * (n - 1)
        IN  [keyword       |-> variations(base)[((n - 1) % NumVariations) + 1],
             search_volume |-> randint(100, 50000, draw(seed, d)),
             difficulty    |-> randint(1, 100, draw(seed, d + 1)),
             cpc           |-> randint(50, 1500, draw(seed, d + 2)),
             competition   |-> choice(Competitions, draw(seed, d + 3)),
             trend         |-> choice(Trends, draw(seed, d + 4)),
             category      |-> replace_space(base, 1, Len(base))]]

(***************************************************************************)
(* KeywordResearcher.search_keywords                                       *)
(***************************************************************************)
\* list.sort(key=search_volume, reverse=True) and sorted(...): a stable sort,
\* so s[j] ends before s[i] when its volume is higher, or equal with j before i
\* mutant: an ascending sort that is then reversed, which turns ties around
goes_before_reversed(s, j, i) ==
    \/ s[j].search_volume > s[i].search_volume
    \/ s[j].search_volume = s[i].search_volume /\ j > i

goes_before(s, j, i) ==
    \/ s[j].search_volume > s[i].search_volume
    \/ s[j].search_volume = s[i].search_volume /\ j < i

sort_by_volume(s) ==
    LET n == Len(s)
        \* place[i]: where s[i] lands
        place == [i \in 1..n |-> 1 + Cardinality({j \in 1..n : goes_before(s, j, i)})] \o <<>>
    IN  [k \in 1..n |-> s[CHOOSE i \in 1..n : place[i] = k]] \o <<>>

\* mutant: one entry too many
slice_one_more(s, limit) ==
    IF limit >= 0
    THEN SubSeq(s, 1, Min(limit + 1, Len(s)))
    ELSE SubSeq(s, 1, Max(0, Len(s) + limit + 1))

\* s[:limit]
slice(s, limit) ==
    IF limit >= 0
    THEN SubSeq(s, 1, Min(limit, Len(s)))
    ELSE SubSeq(s, 1, Max(0, Len(s) + limit))

\* mutant: the seed and the keyword are compared as they are
matches_case_sensitive(seed_keyword, kw) == contains(seed_keyword, kw.keyword)

matches(seed_keyword, kw) == contains(lower(seed_keyword), lower(kw.keyword))

search_keywords(db, seed_keyword, limit) ==
    LET results == SelectSeq(db, LAMBDA kw : matches(seed_keyword, kw))
    IN  slice(sort_by_volume(results), limit)

(***************************************************************************)
(* KeywordResearcher._calculate_opportunity_score                          *)
(***************************************************************************)
\* round(num / den, 1) in tenths.  The quotient is a binary float: a value
\* that is exactly halfway between two tenths in exact arithmetic reaches
\* round() a little above or a little below, so both neighbours are outcomes.
round_tenths(num, den) ==
    LET q == (10 * num) \div den
        r == (10 * num) % den
    IN  IF 2 * r < den THEN {q}
        ELSE IF 2 * r > den THEN {q + 1}
        ELSE {q, q + 1}

\* mutant: the cpc score is not capped
calculate_opportunity_score_uncapped(kw_data) ==
    LET volume_score == Min(kw_data.search_volume, 50 * 1000)
        difficulty_score == (100 - kw_data.difficulty) * 1000
        cpc_score == kw_data.cpc * 5 * 10
    IN  round_tenths(volume_score + difficulty_score + cpc_score, 3 * 1000)

\* The three scores are held in thousandths.
calculate_opportunity_score(kw_data) ==
    LET volume_score == Min(kw_data.search_volume, 50 * 1000)
        difficulty_score == (100 - kw_data.difficulty) * 1000
        cpc_score == Min(kw_data.cpc * 5 * 10, 30 * 1000)
    IN  round_tenths(volume_score + difficulty_score + cpc_score, 3 * 1000)

(***************************************************************************)
(* KeywordResearcher._get_related_keywords                                 *)
(***************************************************************************)
\* mutant: the words are matched as search_keywords matches its seed
is_related_ignoring_case(keyword, words, kw) ==
    /\ \E i \in 1..Len(words) : contains(lower(words[i]), lower(kw.keyword))
    /\ kw.keyword # keyword

is_related(keyword, words, kw) ==
    /\ \E i \in 1..Len(words) : contains(words[i], kw.keyword)
    /\ kw.keyword # keyword

get_related_keywords(db, keyword) ==
    LET words == split(keyword)
        related == SelectSeq(db, LAMBDA kw : is_related(keyword, words, kw))
    IN  slice(sort_by_volume(related), MaxRelated)

(***************************************************************************)
(* KeywordResearcher._generate_seasonal_data, ._get_serp_features,         *)
(* ._get_content_suggestions.  seed is the generator's state when the call *)
(* starts and d the number of draws the call has made so far.              *)
(***************************************************************************)
months == <<"Jan", "Feb", "Mar", "Apr", "May", "Jun",
            "Jul", "Aug", "Sep", "Oct", "Nov", "Dec">>

generate_seasonal_data(seed, d) ==
    [m \in 1..Len(months) |->
        [month |-> months[m], volume |-> randint(70, 130, draw(seed, d + m - 1))]]

features == <<"Featured Snippets", "People Also Ask", "Local Pack",
              "Images", "Videos", "Shopping", "News">>

\* mutant: an entry taken stays in the pool
RECURSIVE sample_with_replacement(_, _, _, _, _)
sample_with_replacement(pool, n, k, seed, d) ==
    IF k = 0 THEN <<>>
    ELSE <<pool[randint(1, n, draw(seed, d))]>>
             \o sample_with_replacement(pool, n, k - 1, seed, d + 1)

\* random.sample(pool, k): k times, take the entry at a random index below n
\* and move the last of the n entries not yet taken into its place
RECURSIVE sample(_, _, _, _, _)
sample(pool, n, k, seed, d) ==
    IF k = 0 THEN <<>>
    ELSE LET j == randint(1, n, draw(seed, d))
         IN  <<pool[j]>> \o sample([pool EXCEPT ![j] = pool[n]], n - 1, k - 1, seed, d + 1)

get_serp_features(seed, d) ==
    sample(features, Len(features), randint(2, 5, draw(seed, d)), seed, d + 1)

get_content_suggestions(keyword) ==
    << "Ultimate Guide to " \o title(keyword),
       "Top 10 " \o title(keyword) \o " Strategies",
       "How to Master " \o title(keyword),
       title(keyword) \o ": Best Practices",
       "Common " \o title(keyword) \o " Mistakes to Avoid" >>

(***************************************************************************)
(* KeywordResearcher.analyze_keyword                                       *)
(***************************************************************************)
\* the indexes of the store records the lookup loop accepts
found_at(db, keyword) ==
    {i \in 1..Len(db) : lower(db[i].keyword) = lower(keyword)}

\* mutant: the record is made for the lowercased keyword of the lookup
new_keyword_data_lowered(keyword, seed) ==
    [keyword       |-> lower(keyword),
     search_volume |-> randint(100, 10000, draw(seed, 0)),
     difficulty    |-> randint(1, 100, draw(seed, 1)),
     cpc           |-> randint(50, 1000, draw(seed, 2)),
     competition   |-> choice(Competitions, draw(seed, 3)),
     trend         |-> choice(Trends, draw(seed, 4)),
     category      |-> "general"]

new_keyword_data(keyword, seed) ==
    [keyword       |-> keyword,
     search_volume |-> randint(100, 10000, draw(seed, 0)),
     difficulty    |-> randint(1, 100, draw(seed, 1)),
     cpc           |-> randint(50, 1000, draw(seed, 2)),
     competition   |-> choice(Competitions, draw(seed, 3)),
     trend         |-> choice(Trends, draw(seed, 4)),
     category      |-> "general"]

\* kw_data: the first store record that matches, or a record made up on the spot
find_keyword(db, keyword, seed) ==
    LET found == found_at(db, keyword)
    IN  IF found # {}
        THEN db[CHOOSE i \in found : \A j \in found : i <= j]
        ELSE new_keyword_data(keyword, seed)

\* the draws made before the analysis fields are computed
draws_before_analysis(db, keyword) == IF found_at(db, keyword) # {} THEN 0 ELSE 5

\* score is the value _calculate_opportunity_score returned
analyze_keyword(db, keyword, seed, score) ==
    LET kw_data == find_keyword(db, keyword, seed)
        d == draws_before_analysis(db, keyword)
    IN  [keyword             |-> kw_data.keyword,
         search_volume       |-> kw_data.search_volume,
         difficulty          |-> kw_data.difficulty,
         cpc                 |-> kw_data.cpc,
         competition         |-> kw_data.competition,
         trend               |-> kw_data.trend,
         category            |-> kw_data.category,
         opportunity_score   |-> score,
         related_keywords    |-> get_related_keywords(db, keyword),
         seasonal_trends     |-> generate_seasonal_data(seed, d),
         serp_features       |-> get_serp_features(seed, d + Len(months)),
         content_suggestions |-> get_content_suggestions(keyword)]

(***************************************************************************)
(* Requests.                                                               *)
(***************************************************************************)
Limits ==
    ((0 - MaxNegLimit)..MaxSmallLimit)
        \cup {MaxRelated + 1, DefaultLimit, StoreSize - 1, StoreSize, StoreSize + 1}

\* seed keywords and keywords the requests carry
SearchSeeds ==
    {"", "seo", "SEO", "Tips", "best", "e-commerce", "how to", "marketing", "zzz"}

AnalyzeKeywords ==
    {"digital marketing tools", "Digital Marketing Tools", "digital marketing Tools",
     "seo tips", "SEO tips", "seo  tips", "totally new unseen phrase", "", " \t ",
     "e-commerce guide", "best marketing", "startup"}

\* kw_data arguments of direct calls of _calculate_opportunity_score
ScoreInputs ==
    [search_volume : {100, 5000, 50000, 100000},
     difficulty    : {1, 40, 100},
     cpc           : {50, 61, 300, 599, 600, 1500}]

\* JSON bodies: an object with the key, or one without it
Bodies(key, texts) == {[k \in {key} |-> t] : t \in texts} \cup {[k \in {} |-> ""]}

\* data.get(key, '')
get(data, key) == IF key \in DOMAIN data THEN data[key] ELSE ""

NoCall == [op |-> "none"]
NoValue == <<>>

Init ==
    /\ \E seed \in RandomSeeds : keyword_database = generate_mock_keywords(seed)
    /\ pc = [w \in Workers |-> "idle"]
    /\ call = [w \in Workers |-> NoCall]
    /\ ret = [w \in Workers |-> NoValue]

\* researcher.search_keywords(seed_keyword, limit) is called
CallSearch(w, seed_keyword, limit) ==
    /\ pc[w] = "idle"
    /\ pc' = [pc EXCEPT ![w] = "search"]
    /\ call' = [call EXCEPT ![w] = [op |-> "search_keywords", via |-> "call",
                                    seed_keyword |-> seed_keyword, limit |-> limit]]
    /\ UNCHANGED <<keyword_database, ret>>

\* POST /search: the route calls researcher.search_keywords(seed_keyword)
PostSearch(w, data) ==
    /\ pc[w] = "idle"
    /\ pc' = [pc EXCEPT ![w] = "search"]
    /\ call' = [call EXCEPT ![w] = [op |-> "search_keywords", via |-> "/search",
                                    seed_keyword |-> get(data, "seed_keyword"),
                                    limit |-> DefaultLimit]]
    /\ UNCHANGED <<keyword_database, ret>>

SearchKeywords(w) ==
    /\ pc[w] = "search"
    /\ ret' = [ret EXCEPT ![w] =
                  search_keywords(keyword_database, call[w].seed_keyword, call[w].limit)]
    /\ pc' = [pc EXCEPT ![w] = "done"]
    /\ UNCHANGED <<keyword_database, call>>

\* POST /analyze: the route calls researcher.analyze_keyword(keyword); seed is
\* the state the generator is in at that moment
PostAnalyze(w, data, seed) ==
    /\ pc[w] = "idle"
    /\ pc' = [pc EXCEPT ![w] = "analyze"]
    /\ call' = [call EXCEPT ![w] = [op |-> "analyze_keyword", via |-> "/analyze",
                                    keyword |-> get(data, "keyword"), seed |-> seed]]
    /\ UNCHANGED <<keyword_database, ret>>

\* mutant: the record made up for an unknown keyword is kept in the store
AnalyzeKeywordStoring(w) ==
    /\ pc[w] = "analyze"
    /\ LET kw_data == find_keyword(keyword_database, call[w].keyword, call[w].seed)
       IN  /\ \E score \in calculate_opportunity_score(kw_data) :
                   ret' = [ret EXCEPT ![w] =
                              analyze_keyword(keyword_database, call[w].keyword,
                                              call[w].seed, score)]
           /\ keyword_database' =
                  IF kw_data.category = "general"
                  THEN Append(keyword_database, kw_data)
                  ELSE keyword_database
    /\ pc' = [pc EXCEPT ![w] = "done"]
    /\ UNCHANGED call

AnalyzeKeyword(w) ==
    /\ pc[w] = "analyze"
    /\ LET kw_data == find_keyword(keyword_database, call[w].keyword, call[w].seed)
       IN  \E score \in calculate_opportunity_score(kw_data) :
               ret' = [ret EXCEPT ![w] =
                          analyze_keyword(keyword_database, call[w].keyword,
                                          call[w].seed, score)]
    /\ pc' = [pc EXCEPT ![w] = "done"]
    /\ UNCHANGED <<keyword_database, call>>

\* researcher._calculate_opportunity_score(kw_data) is called on its own
CallScore(w, kw_data) ==
    /\ pc[w] = "idle"
    /\ pc' = [pc EXCEPT ![w] = "score"]
    /\ call' = [call EXCEPT ![w] = [op |-> "calculate_opportunity_score",
                                    via |-> "call", kw_data |-> kw_data]]
    /\ UNCHANGED <<keyword_database, ret>>

CalculateOpportunityScore(w) ==
    /\ pc[w] = "score"
    /\ \E score \in calculate_opportunity_score(call[w].kw_data) :
           ret' = [ret EXCEPT ![w] = score]
    /\ pc' = [pc EXCEPT ![w] = "done"]
    /\ UNCHANGED <<keyword_database, call>>

\* the value is handed to the caller (jsonify) and the worker is free again
Return(w) ==
    /\ pc[w] = "done"
    /\ pc' = [pc EXCEPT ![w] = "idle"]
    /\ call' = [call EXCEPT ![w] = NoCall]
    /\ ret' = [ret EXCEPT ![w] = NoValue]
    /\ UNCHANGED keyword_database

\* One worker serves one request after the other.
Next ==
    \E w \in {1} :
        \/ \E s \in SearchSeeds, limit \in Limits : CallSearch(w, s, limit)
        \/ \E data \in Bodies("seed_keyword", SearchSeeds) : PostSearch(w, data)
        \/ SearchKeywords(w)
        \/ \E data \in Bodies("keyword", AnalyzeKeywords), seed \in RandomSeeds :
               PostAnalyze(w, data, seed)
        \/ AnalyzeKeyword(w)
        \/ \E kw_data \in ScoreInputs : CallScore(w, kw_data)
        \/ CalculateOpportunityScore(w)
        \/ Return(w)

Spec == Init /\ [][Next]_vars

\* Several workers serve requests at once (the development server runs each
\* request on a thread of its own); the handlers' steps interleave freely.
ConcurrentTexts == {"seo tips"}

NextConcurrent ==
    \E w \in Workers :
        \/ \E data \in Bodies("seed_keyword", ConcurrentTexts) : PostSearch(w, data)
        \/ SearchKeywords(w)
        \/ \E data \in Bodies("keyword", ConcurrentTexts) : PostAnalyze(w, data, 0)
        \/ AnalyzeKeyword(w)
        \/ Return(w)

SpecConcurrent == Init /\ [][NextConcurrent]_vars

(***************************************************************************)
(* Vocabulary of the properties, stated on the text itself rather than     *)
(* through the operators above.                                            *)
(***************************************************************************)
Done(w, op) == pc[w] = "done" /\ call[w].op = op

CasePairs ==
    {<<CharAt(UpperLetters, i), CharAt(LowerLetters, i)>> : i \in 1..Len(LowerLetters)}

\* c and d are the same character, or the same letter in different case
SameLetter(c, d) == c = d \/ <<c, d>> \in CasePairs \/ <<d, c>> \in CasePairs

\* sub occurs in text, at some offset, character by character
Occurs(sub, text) ==
    \E off \in 0..(Len(text) - Len(sub)) :
        \A k \in 1..Len(sub) : CharAt(sub, k) = CharAt(text, off + k)

OccursIgnoringCase(sub, text) ==
    \E off \in 0..(Len(text) - Len(sub)) :
        \A k \in 1..Len(sub) : SameLetter(CharAt(sub, k), CharAt(text, off + k))

EqualIgnoringCase(a, b) ==
    Len(a) = Len(b) /\ \A k \in 1..Len(a) : SameLetter(CharAt(a, k), CharAt(b, k))

\* the words of text: the runs of non-whitespace characters that whitespace
\* or an end of the text bounds on both sides
WordsOf(text) ==
    {SubSeq(text, a, b) : <<a, b>> \in
        {p \in (1..Len(text)) \X (1..Len(text)) :
            /\ p[1] <= p[2]
            /\ \A i \in p[1]..p[2] : CharAt(text, i) \notin Whitespace
            /\ (p[1] = 1 \/ CharAt(text, p[1] - 1) \in Whitespace)
            /\ (p[2] = Len(text) \/ CharAt(text, p[2] + 1) \in Whitespace)}}

\* the position in the store of the record with this keyword
StoreIndex(kw) ==
    CHOOSE i \in 1..Len(keyword_database) : keyword_database[i].keyword = kw.keyword

\* r is the first `count` of the store records at the indexes in M, by
\* search_volume descending: only records of M, none twice, none of M left out
\* that has a higher volume than a returned one
TopByVolume(r, M, count) ==
    /\ Len(r) = Min(count, Cardinality(M))
    /\ \A k \in 1..Len(r) : \E i \in M : r[k] = keyword_database[i]
    /\ \A k, l \in 1..Len(r) :
           k < l => r[k] # r[l] /\ r[k].search_volume >= r[l].search_volume
    /\ \A i \in M :
           (\A k \in 1..Len(r) : r[k] # keyword_database[i])
               => \A k \in 1..Len(r) :
                      keyword_database[i].search_volume <= r[k].search_volume

(***************************************************************************)
(* C1.  For every seed (the empty seed matches every record) and every     *)
(* limit >= 0, search_keywords returns exactly the first `limit` of the    *)
(* store records whose lowercased keyword contains the lowercased seed,    *)
(* by search_volume descending; search_keywords("", limit) has             *)
(* min(160, limit) records.                                                *)
(***************************************************************************)
SearchReturnsTopMatches ==
    \A w \in Workers :
        Done(w, "search_keywords") /\ call[w].limit >= 0 =>
            LET M == {i \in 1..Len(keyword_database) :
                         OccursIgnoringCase(call[w].seed_keyword,
                                            keyword_database[i].keyword)}
            IN  /\ TopByVolume(ret[w], M, call[w].limit)
                /\ call[w].seed_keyword = "" => Len(ret[w]) = Min(160, call[w].limit)

\* a seed in upper case found its lowercase matches, cut at the limit
SearchReturnsTopMatchesWitness ==
    \E w \in Workers :
        /\ Done(w, "search_keywords")
        /\ call[w].seed_keyword = "SEO"
        /\ call[w].limit = 3
        /\ Len(ret[w]) = 3

(***************************************************************************)
(* C2.  As claimed: for every integer limit the result of search_keywords  *)
(* has length <= limit.                                                    *)
(***************************************************************************)
SearchLengthAtMostAnyLimit ==
    \A w \in Workers :
        Done(w, "search_keywords") => Len(ret[w]) <= call[w].limit

(***************************************************************************)
(* C2, amended.  For every limit >= 0 the result of search_keywords has    *)
(* length <= limit, and a response of POST /search never has more than 50  *)
(* records.                                                                *)
(***************************************************************************)
SearchLengthAtMostLimit ==
    \A w \in Workers :
        Done(w, "search_keywords") =>
            /\ call[w].limit >= 0 => Len(ret[w]) <= call[w].limit
            /\ call[w].via = "/search" => Len(ret[w]) <= 50

\* POST /search with the empty seed answers with exactly 50 records
SearchLengthAtMostLimitWitness ==
    \E w \in Workers :
        /\ Done(w, "search_keywords")
        /\ call[w].via = "/search"
        /\ Len(ret[w]) = 50

(***************************************************************************)
(* C3.  Two returned records with equal search_volume appear in the result *)
(* of search_keywords in the order they have in the store.                 *)
(***************************************************************************)
SearchKeepsStoreOrderOfTies ==
    \A w \in Workers :
        Done(w, "search_keywords") =>
            \A k, l \in 1..Len(ret[w]) :
                k < l /\ ret[w][k].search_volume = ret[w][l].search_volume
                    => StoreIndex(ret[w][k]) < StoreIndex(ret[w][l])

\* a result with a tie between two neighbours
SearchKeepsStoreOrderOfTiesWitness ==
    \E w \in Workers :
        /\ Done(w, "search_keywords")
        /\ Len(ret[w]) >= 2
        /\ ret[w][1].search_volume = ret[w][2].search_volume

\* the store holds the 160 generated records and searches return only those
StoreHoldsGeneratedRecords ==
    /\ Len(keyword_database) = 160
    /\ \A i \in 1..Len(keyword_database) : keyword_database[i].category # "general"
    /\ \A w \in Workers :
           Done(w, "search_keywords") =>
               \A k \in 1..Len(ret[w]) :
                   \E i \in 1..Len(keyword_database) : ret[w][k] = keyword_database[i]

(***************************************************************************)
(* C4.  The store is unchanged by every step of every interleaving of      *)
(* searches and analyses: it keeps its 160 records, a record made up by    *)
(* analyze_keyword is never in it, and a search returns store records only.*)
(***************************************************************************)
StoreNeverChanges ==
    [](StoreHoldsGeneratedRecords) /\ [][keyword_database' = keyword_database]_vars

\* one worker has analysed a keyword that is not in the store while another
\* has searched for it and found nothing
StoreNeverChangesWitness ==
    \E w, v \in Workers :
        /\ Done(w, "analyze_keyword")
        /\ ret[w].category = "general"
        /\ Done(v, "search_keywords")
        /\ call[v].seed_keyword = call[w].keyword
        /\ ret[v] = <<>>

\* some store record has this keyword, case aside
InStore(keyword) ==
    \E i \in 1..Len(keyword_database) :
        EqualIgnoringCase(keyword_database[i].keyword, keyword)

(***************************************************************************)
(* C5.  For a keyword with no case-insensitive exact match in the store    *)
(* (the empty text included) analyze_keyword does not fail and returns a   *)
(* complete result: category "general", the keyword as given, search_volume*)
(* in [100, 10000], difficulty in [1, 100], and the five analysis fields.  *)
(***************************************************************************)
AnalyzeUnknownKeyword ==
    \A w \in Workers :
        \* the call can complete
        /\ pc[w] = "analyze" =>
               calculate_opportunity_score(
                   find_keyword(keyword_database, call[w].keyword, call[w].seed)) # {}
        /\ Done(w, "analyze_keyword") /\ ~InStore(call[w].keyword) =>
               /\ ret[w].category = "general"
               /\ ret[w].keyword = call[w].keyword
               /\ ret[w].search_volume \in 100..10000
               /\ ret[w].difficulty \in 1..100
               /\ {"opportunity_score", "related_keywords", "seasonal_trends",
                   "serp_features", "content_suggestions"} \subseteq DOMAIN ret[w]

\* a keyword with capitals that is not in the store comes back as given
AnalyzeUnknownKeywordWitness ==
    \E w \in Workers :
        /\ Done(w, "analyze_keyword")
        /\ call[w].keyword = "SEO tips"
        /\ ~InStore(call[w].keyword)
        /\ ret[w].keyword = "SEO tips"
        /\ ret[w].category = "general"

\* t tenths is a nearest tenth of total / 3000
NearestTenth(t, total) == (300 * t) - total \in (0 - 150)..150

ScoreOf(t, r) ==
    LET volume == IF r.search_volume >= 50000 THEN 50000 ELSE r.search_volume
        difficulty == 1000 * (100 - r.difficulty)
        cpc == IF r.cpc >= 600 THEN 30000 ELSE 50 * r.cpc
    IN  NearestTenth(t, volume + difficulty + cpc)

(***************************************************************************)
(* C6.  opportunity_score is (min(search_volume/1000, 50) + (100 -         *)
(* difficulty) + min(cpc*5, 30)) / 3 rounded to one decimal, of the        *)
(* result's own fields: the volume term is 50 from 50000 on, the cpc term  *)
(* is 30 from 6.0 on, and 5000, 40, 3.0 give 26.7.                         *)
(***************************************************************************)
OpportunityScoreFormula ==
    \A w \in Workers :
        /\ Done(w, "analyze_keyword") => ScoreOf(ret[w].opportunity_score, ret[w])
        /\ Done(w, "calculate_opportunity_score") =>
               /\ ScoreOf(ret[w], call[w].kw_data)
               /\ call[w].kw_data = [search_volume |-> 5000, difficulty |-> 40, cpc |-> 300]
                      => ret[w] = 267

\* the worked example
OpportunityScoreFormulaWitness ==
    \E w \in Workers :
        /\ Done(w, "calculate_opportunity_score")
        /\ call[w].kw_data = [search_volume |-> 5000, difficulty |-> 40, cpc |-> 300]
        /\ ret[w] = 267

(***************************************************************************)
(* C7.  related_keywords is the first 10, by search_volume descending, of  *)
(* the store records whose keyword contains a whitespace-separated word of *)
(* the input (case-sensitive) and differs from the input; it is empty when *)
(* the input has no words.                                                 *)
(***************************************************************************)
RelatedKeywordsAreTopMatches ==
    \A w \in Workers :
        Done(w, "analyze_keyword") =>
            LET words == WordsOf(call[w].keyword)
                M == {i \in 1..Len(keyword_database) :
                         /\ \E word \in words : Occurs(word, keyword_database[i].keyword)
                         /\ keyword_database[i].keyword # call[w].keyword}
            IN  /\ TopByVolume(ret[w].related_keywords, M, 10)
                /\ words = {} => ret[w].related_keywords = <<>>

\* more than 10 records are related and 10 are returned
RelatedKeywordsAreTopMatchesWitness ==
    \E w \in Workers :
        /\ Done(w, "analyze_keyword")
        /\ call[w].keyword = "best marketing"
        /\ Len(ret[w].related_keywords) = 10

(***************************************************************************)
(* C8.  As claimed: content_suggestions for "seo tips" includes exactly    *)
(* the string "SEO Tips: Best Practices".                                  *)
(***************************************************************************)
SuggestionsForSeoTipsAsClaimed ==
    \A w \in Workers :
        Done(w, "analyze_keyword") /\ call[w].keyword = "seo tips" =>
            \E k \in 1..Len(ret[w].content_suggestions) :
                ret[w].content_suggestions[k] = "SEO Tips: Best Practices"

\* t is text with every letter that follows no letter in upper case and every
\* letter that follows a letter in lower case
IsTitleCaseOf(t, text) ==
    /\ Len(t) = Len(text)
    /\ \A i \in 1..Len(text) :
           /\ SameLetter(CharAt(t, i), CharAt(text, i))
           /\ IsCased(CharAt(text, i)) =>
                  (IsUpper(CharAt(t, i)) <=> (i = 1 \/ ~IsCased(CharAt(text, i - 1))))

(***************************************************************************)
(* C8, amended.  content_suggestions is exactly the five templates with    *)
(* the title-cased keyword substituted, where title-casing upper-cases a   *)
(* letter that follows no letter and lower-cases a letter that follows a   *)
(* letter; for "seo tips" it includes "Seo Tips: Best Practices".          *)
(***************************************************************************)
ContentSuggestionsAreTitleCased ==
    \A w \in Workers :
        Done(w, "analyze_keyword") =>
            LET s == ret[w].content_suggestions
                t == SubSeq(s[4], 1, Len(call[w].keyword))
            IN  /\ Len(s) = 5
                /\ IsTitleCaseOf(t, call[w].keyword)
                /\ s[1] = "Ultimate Guide to " \o t
                /\ s[2] = "Top 10 " \o t \o " Strategies"
                /\ s[3] = "How to Master " \o t
                /\ s[4] = t \o ": Best Practices"
                /\ s[5] = "Common " \o t \o " Mistakes to Avoid"
                /\ call[w].keyword = "seo tips" => s[4] = "Seo Tips: Best Practices"

ContentSuggestionsAreTitleCasedWitness ==
    \E w \in Workers :
        /\ Done(w, "analyze_keyword")
        /\ call[w].keyword = "seo tips"
        /\ ret[w].content_suggestions[4] = "Seo Tips: Best Practices"

(***************************************************************************)
(* C9.  serp_features has 2 to 5 entries, none twice, each one of the 7    *)
(* fixed features; seasonal_trends has 12 entries, months Jan..Dec in      *)
(* calendar order, each volume in [70, 130].                               *)
(***************************************************************************)
SerpFeaturesAndSeasonalTrends ==
    \A w \in Workers :
        Done(w, "analyze_keyword") =>
            LET f == ret[w].serp_features
                t == ret[w].seasonal_trends
            IN  /\ Len(f) \in 2..5
                /\ \A k, l \in 1..Len(f) : k # l => f[k] # f[l]
                /\ \A k \in 1..Len(f) :
                       f[k] \in {"Featured Snippets", "People Also Ask", "Local Pack",
                                 "Images", "Videos", "Shopping", "News"}
                /\ Len(t) = 12
                /\ [m \in 1..12 |-> t[m].month] =
                       <<"Jan", "Feb", "Mar", "Apr", "May", "Jun",
                         "Jul", "Aug", "Sep", "Oct", "Nov", "Dec">>
                /\ \A m \in 1..12 : t[m].volume \in 70..130

\* the largest sample, and a month at the top of its range
SerpFeaturesAndSeasonalTrendsWitness ==
    \E w \in Workers :
        /\ Done(w, "analyze_keyword")
        /\ Len(ret[w].serp_features) = 5
        /\ \E m \in 1..12 : ret[w].seasonal_trends[m].volume = 130

(***************************************************************************)
(* C10.  related_keywords never contains the record being analysed: no     *)
(* entry has the keyword of the result itself.                             *)
(***************************************************************************)
RelatedExcludesAnalysedRecord ==
    \A w \in Workers :
        Done(w, "analyze_keyword") =>
            \A k \in 1..Len(ret[w].related_keywords) :
                ret[w].related_keywords[k].keyword # ret[w].keyword

====
